---- MODULE Spec2Model ----
(***************************************************************************)
(* A model of the local_storage_cache desktop bridges (Linux and Windows): *)
(* the plugin's method-call handler, the DatabaseManager it owns, and the  *)
(* part of the embedded SQL engine the DatabaseManager calls.              *)
(***************************************************************************)
EXTENDS Integers, Sequences, FiniteSets, TLC

VARIABLES
    platform,          \* "linux" or "windows": which of the two plugins runs
    alive,             \* the plugin object exists (registered, not torn down)
    database_manager,  \* the plugin's std::unique_ptr<DatabaseManager>
    connections,       \* engine handles opened by sqlite3_open and not closed
    tables,            \* contents of the database file
    response,          \* the response given to the last method call
    lastCall,          \* the last method call (name and arguments)
    executed           \* what the last call handed to the engine

vars == <<platform, alive, database_manager, connections, tables,
          response, lastCall, executed>>

----------------------------------------------------------------------------
(* Bounds of the model *)

MaxRows == 2

----------------------------------------------------------------------------
(* Dynamically typed scalar values (FlValue / flutter::EncodableValue and  *)
(* the engine's storage classes). Floats are counted in tenths.            *)

NullValue == [kind |-> "null", i |-> 0, s |-> ""]
IntValue(n) == [kind |-> "int", i |-> n, s |-> ""]
FloatValue(tenths) == [kind |-> "float", i |-> tenths, s |-> ""]
TextValue(t) == [kind |-> "text", i |-> 0, s |-> t]
BoolValue(b) == [kind |-> "bool", i |-> IF b THEN 1 ELSE 0, s |-> ""]

FloatToText(tenths) == ToString(tenths \div 10) \o "." \o ToString(tenths % 10)

\* Column affinity applied by the engine when a value is stored.
ApplyAffinity(aff, val) ==
    CASE aff = "TEXT" /\ val.kind = "int" -> TextValue(ToString(val.i))
      [] aff = "TEXT" /\ val.kind = "float" -> TextValue(FloatToText(val.i))
      [] aff = "REAL" /\ val.kind = "int" -> FloatValue(10 * val.i)
      [] aff = "INTEGER" /\ val.kind = "float" /\ val.i % 10 = 0 -> IntValue(val.i \div 10)
      [] OTHER -> val

----------------------------------------------------------------------------
(* The database file: physical tables, their columns and rows *)

Column(name, aff, notnull, dflt) ==
    [name |-> name, aff |-> aff, notnull |-> notnull, dflt |-> dflt]

ItemsColumns ==
    << Column("name", "TEXT", FALSE, NullValue),
       Column("note", "", FALSE, NullValue),
       Column("price", "REAL", FALSE, NullValue),
       Column("qty", "INTEGER", FALSE, IntValue(0)) >>

StrictColumns == << Column("name", "TEXT", TRUE, NullValue) >>

PlainColumns == << Column("name", "", FALSE, IntValue(7)) >>

PhysicalTables == {"default_items", "s_items", "s_"}

SchemaOf(t) ==
    CASE t = "default_items" -> ItemsColumns
      [] t = "s_items" -> StrictColumns
      [] OTHER -> PlainColumns

ColumnNames(cols) == {cols[i].name : i \in 1..Len(cols)}

ColumnIndex(cols, name) == CHOOSE i \in 1..Len(cols) : cols[i].name = name

RowIds(rows) == {rows[i].rowid : i \in 1..Len(rows)}

MaxOf(S) == IF S = {} THEN 0 ELSE CHOOSE m \in S : \A x \in S : x <= m

NextRowId(rows) == MaxOf(RowIds(rows)) + 1

----------------------------------------------------------------------------
(* SQL statements. A statement is kept in parsed form beside its text.     *)

NoWhere == [has |-> FALSE, col |-> "", val |-> NullValue, param |-> 0]
WhereValue(col, val) == [has |-> TRUE, col |-> col, val |-> val, param |-> 0]
WhereParam(col, n) == [has |-> TRUE, col |-> col, val |-> NullValue, param |-> n]

Statement(op, table, where, columns, placeholders, text) ==
    [op |-> op, table |-> table, where |-> where, columns |-> columns,
     placeholders |-> placeholders, text |-> text]

WhereText(w) ==
    IF ~w.has THEN ""
    ELSE " WHERE " \o w.col \o " = " \o (IF w.param > 0 THEN "?" ELSE "'" \o w.val.s \o "'")

SelectFrom(t, w) ==
    Statement("select", t, w, <<>>, <<>>, "SELECT * FROM " \o t \o WhereText(w))
DeleteFrom(t, w) ==
    Statement("delete", t, w, <<>>, <<>>, "DELETE FROM " \o t \o WhereText(w))
CreateTable(t) ==
    Statement("create", t, NoWhere, <<>>, <<>>, "CREATE TABLE " \o t \o " (...)")
InsertDefaultValues(t) ==
    Statement("insertDefault", t, NoWhere, <<>>, <<>>,
              "INSERT INTO " \o t \o " DEFAULT VALUES")

RECURSIVE JoinComma(_)
JoinComma(seq) ==
    IF seq = <<>> THEN ""
    ELSE IF Len(seq) = 1 THEN seq[1]
    ELSE seq[1] \o ", " \o JoinComma(Tail(seq))

InsertInto(t, columns) ==
    LET placeholders == [i \in 1..Len(columns) |-> "?"]
    IN  Statement("insert", t, NoWhere, columns, placeholders,
                  "INSERT INTO " \o t \o " (" \o JoinComma(columns)
                      \o ") VALUES (" \o JoinComma(placeholders) \o ")")

SyntaxError == Statement("error", "", NoWhere, <<>>, <<>>, "")

\* The identifiers and the statements the engine's parser is given here.
Identifiers == {"default", "s", "", "items"}
TableNames == {a \o "_" \o b : a \in Identifiers, b \in Identifiers}
ColumnLists ==
    { <<"name">>, <<"name", "note">>, <<"name", "note", "price", "qty">>, <<"zzz">> }
Wheres == {NoWhere, WhereValue("name", TextValue("zz")), WhereParam("name", 1)}

Grammar ==
    {SelectFrom(t, w) : t \in TableNames, w \in Wheres}
    \cup {DeleteFrom(t, w) : t \in TableNames, w \in Wheres}
    \cup {CreateTable(t) : t \in PhysicalTables}
    \cup {InsertDefaultValues(t) : t \in TableNames}
    \cup {InsertInto(t, c) : t \in TableNames, c \in ColumnLists}

\* The engine's parser: the statement a text denotes, or a syntax error.
ParseTable ==
    [text \in {st.text : st \in Grammar} |-> CHOOSE st \in Grammar : st.text = text]
Parse(text) ==
    IF text \in DOMAIN ParseTable THEN ParseTable[text] ELSE SyntaxError

MalformedSql == "SELEC * FROM"

----------------------------------------------------------------------------
(* The embedded engine, as far as the DatabaseManager calls it *)

NullHandle == 0

Connection(sick) == [sick |-> sick, changes |-> 0, last_insert_rowid |-> 0]

GoodPath == "cache.db"
DirectoryPath == "/tmp"

\* sqlite3_open: a handle is allocated even when the open fails; the failed
\* handle only reports the error and accepts sqlite3_close.
sqlite3_open(path, conns) ==
    LET h == MaxOf(DOMAIN conns) + 1
    IN  [ok |-> path = GoodPath,
         handle |-> h,
         connections |-> conns @@ (h :> Connection(path # GoodPath))]

\* sqlite3_close
sqlite3_close(h, conns) == [x \in DOMAIN conns \ {h} |-> conns[x]]

IsDistinct(seq) == \A i, j \in 1..Len(seq) : seq[i] = seq[j] => i = j

\* The statement compiles against the schema.
Compiles(stmt, tbls) ==
    CASE stmt.op = "create" -> stmt.table \notin DOMAIN tbls
      [] stmt.op \in {"select", "delete"} ->
             /\ stmt.table \in DOMAIN tbls
             /\ stmt.where.has =>
                    stmt.where.col \in ColumnNames(tbls[stmt.table].columns)
      [] stmt.op = "insert" ->
             /\ stmt.table \in DOMAIN tbls
             /\ IsDistinct(stmt.columns)
             /\ \A i \in 1..Len(stmt.columns) :
                    stmt.columns[i] \in ColumnNames(tbls[stmt.table].columns)
      [] stmt.op = "insertDefault" -> stmt.table \in DOMAIN tbls
      [] OTHER -> FALSE

\* A prepare that accepts a handle whose open failed.
sqlite3_prepare_v2_AcceptsFailedHandle(conn, tbls, text) == Compiles(Parse(text), tbls)

\* sqlite3_prepare_v2 returns SQLITE_OK
sqlite3_prepare_v2(conn, tbls, text) == ~conn.sick /\ Compiles(Parse(text), tbls)

\* The value of parameter n of a prepared statement: unbound parameters are NULL.
Parameter(bound, n) == IF n \in 1..Len(bound) THEN bound[n] ELSE NullValue

Matches(row, cols, w, bound) ==
    IF ~w.has THEN TRUE
    ELSE LET j == ColumnIndex(cols, w.col)
             v == IF w.param > 0 THEN Parameter(bound, w.param) ELSE w.val
         IN  /\ v.kind # "null"
             /\ row.vals[j].kind # "null"
             /\ row.vals[j] = ApplyAffinity(cols[j].aff, v)

\* The row an INSERT stores: a listed column takes its parameter, any other
\* column its default.
NewRowValues(cols, stmt, bound) ==
    [j \in 1..Len(cols) |->
        IF \E i \in 1..Len(stmt.columns) : stmt.columns[i] = cols[j].name
        THEN LET i == CHOOSE i \in 1..Len(stmt.columns) : stmt.columns[i] = cols[j].name
             IN  ApplyAffinity(cols[j].aff, Parameter(bound, i))
        ELSE ApplyAffinity(cols[j].aff, cols[j].dflt)]

\* A step that changes nothing and emits no row.
StepDone(tbls, conns) ==
    [rc |-> "SQLITE_DONE", rows |-> <<>>, columns |-> <<>>,
     tables |-> tbls, connections |-> conns]

\* SELECT: the rows of t that match, in row order.
StepSelect(t, stmt, bound, tbls, conns) ==
    [StepDone(tbls, conns) EXCEPT
        !.rows = SelectSeq(t.rows, LAMBDA r : Matches(r, t.columns, stmt.where, bound)),
        !.columns = t.columns]

\* DELETE: the rows of t that do not match are kept.
StepDelete(h, t, stmt, bound, tbls, conns) ==
    [StepDone(tbls, conns) EXCEPT
        !.tables = [tbls EXCEPT ![stmt.table].rows =
            SelectSeq(t.rows, LAMBDA r : ~Matches(r, t.columns, stmt.where, bound))],
        !.connections = [conns EXCEPT ![h].changes =
            Cardinality({i \in 1..Len(t.rows) :
                            Matches(t.rows[i], t.columns, stmt.where, bound)})]]

\* INSERT: one row is appended unless a NOT NULL column would hold NULL.
StepInsert(h, t, vals, id, stmt, tbls, conns) ==
    IF \E j \in 1..Len(t.columns) : t.columns[j].notnull /\ vals[j].kind = "null"
    THEN [StepDone(tbls, conns) EXCEPT !.rc = "SQLITE_CONSTRAINT"]
    ELSE [StepDone(tbls, conns) EXCEPT
            !.tables = [tbls EXCEPT ![stmt.table].rows =
                            Append(t.rows, [rowid |-> id, vals |-> vals])],
            !.connections = [conns EXCEPT ![h].changes = 1,
                                          ![h].last_insert_rowid = id]]

\* One prepared statement stepped until it is done.
StepStatement(h, conns, tbls, stmt, bound) ==
    CASE stmt.op = "select" ->
            StepSelect(tbls[stmt.table], stmt, bound, tbls, conns)
      [] stmt.op = "create" ->
            [StepDone(tbls, conns) EXCEPT !.tables =
                tbls @@ (stmt.table :> [columns |-> SchemaOf(stmt.table), rows |-> <<>>])]
      [] stmt.op = "delete" ->
            StepDelete(h, tbls[stmt.table], stmt, bound, tbls, conns)
      [] stmt.op \in {"insert", "insertDefault"} ->
            StepInsert(h, tbls[stmt.table],
                       NewRowValues(tbls[stmt.table].columns, stmt, bound),
                       NextRowId(tbls[stmt.table].rows), stmt, tbls, conns)
      [] OTHER -> [StepDone(tbls, conns) EXCEPT !.rc = "SQLITE_ERROR"]

\* sqlite3_step until the statement is done: the result code of the last
\* step, the rows emitted before it, and the engine's state afterwards.
sqlite3_step(h, conns, tbls, text, bound) ==
    StepStatement(h, conns, tbls, Parse(text), bound)

----------------------------------------------------------------------------
(* DatabaseManager *)

NoManager == [present |-> FALSE, database_path_ |-> "", database_ |-> NullHandle]

\* DatabaseManager::DatabaseManager
DatabaseManager(database_path) ==
    [present |-> TRUE, database_path_ |-> database_path, database_ |-> NullHandle]

\* What a DatabaseManager call handed to the engine.
Executed(sql, ok, bound, stepped) ==
    [sql |-> sql, ok |-> ok, bound |-> bound, stepped |-> stepped]
NothingExecuted == Executed("", FALSE, <<>>, FALSE)

\* Initialize that returns true whatever sqlite3_open returned.
Initialize_IgnoresOpenResult(mgr, conns) ==
    [ok |-> TRUE,
     manager |-> [mgr EXCEPT !.database_ = sqlite3_open(mgr.database_path_, conns).handle],
     connections |-> sqlite3_open(mgr.database_path_, conns).connections]

\* DatabaseManager::Initialize
Initialize(mgr, conns) ==
    LET opened == sqlite3_open(mgr.database_path_, conns)
    IN  [ok |-> opened.ok,
         manager |-> [mgr EXCEPT !.database_ = opened.handle],
         connections |-> opened.connections]

\* Close that forgets the handle without closing it.
Close_KeepsHandle(mgr, conns) ==
    [manager |-> [mgr EXCEPT !.database_ = NullHandle], connections |-> conns]

\* DatabaseManager::Close
Close(mgr, conns) ==
    IF mgr.database_ # NullHandle
    THEN [manager |-> [mgr EXCEPT !.database_ = NullHandle],
          connections |-> sqlite3_close(mgr.database_, conns)]
    ELSE [manager |-> mgr, connections |-> conns]

\* A destructor that drops the manager without closing its handle.
Destroy_LeaksHandle(mgr, conns) == conns

\* DatabaseManager::~DatabaseManager, run when the owning unique_ptr is reset
\* or assigned; a null unique_ptr destroys nothing.
Destroy(mgr, conns) ==
    IF mgr.present THEN Close(mgr, conns).connections ELSE conns

\* GetPrefixedTableName with its two parts in the wrong order.
GetPrefixedTableName_Swapped(table_name, space) == table_name \o "_" \o space

\* DatabaseManager::GetPrefixedTableName
GetPrefixedTableName(table_name, space) == space \o "_" \o table_name

\* The call's outcome: the returned value and the engine's state afterwards.
Outcome(value, tbls, conns, exec) ==
    [value |-> value, tables |-> tbls, connections |-> conns, executed |-> exec]

\* The end of DatabaseManager::Insert: -1 unless the step ended SQLITE_DONE,
\* else sqlite3_last_insert_rowid.
InsertResult(mgr, step, exec) ==
    Outcome(IF step.rc # "SQLITE_DONE" THEN -1
            ELSE step.connections[mgr.database_].last_insert_rowid,
            step.tables, step.connections, exec)

\* DatabaseManager::Insert from sqlite3_prepare_v2 on: prepare, step, finalize.
ExecuteInsert(mgr, sql, bound, tbls, conns) ==
    IF ~sqlite3_prepare_v2(conns[mgr.database_], tbls, sql)
    THEN Outcome(-1, tbls, conns, Executed(sql, FALSE, <<>>, FALSE))
    ELSE InsertResult(mgr, sqlite3_step(mgr.database_, conns, tbls, sql, bound),
                      Executed(sql, TRUE, bound, TRUE))

\* DatabaseManager::Insert (Linux): the statement never names a column and
\* nothing is bound.
InsertLinux(mgr, table_name, data, space, tbls, conns) ==
    IF mgr.database_ = NullHandle \/ ~data.isMap
    THEN Outcome(-1, tbls, conns, NothingExecuted)
    ELSE ExecuteInsert(mgr,
             "INSERT INTO " \o GetPrefixedTableName(table_name, space)
                 \o " DEFAULT VALUES",
             <<>>, tbls, conns)

\* The columns_stream and placeholders_stream loop of DatabaseManager::Insert
\* (Windows): a key that is not a string adds the separator and nothing else.
RECURSIVE ColumnsStream(_)
ColumnsStream(entries) ==
    IF entries = <<>> THEN ""
    ELSE LET key == entries[Len(entries)][1]
             front == SubSeq(entries, 1, Len(entries) - 1)
         IN  ColumnsStream(front) \o (IF front # <<>> THEN ", " ELSE "")
                 \o (IF key.kind = "text" THEN key.s ELSE "")

RECURSIVE PlaceholdersStream(_)
PlaceholdersStream(entries) ==
    IF entries = <<>> THEN ""
    ELSE LET key == entries[Len(entries)][1]
             front == SubSeq(entries, 1, Len(entries) - 1)
         IN  PlaceholdersStream(front) \o (IF front # <<>> THEN ", " ELSE "")
                 \o (IF key.kind = "text" THEN "?" ELSE "")

\* The bind chain of DatabaseManager::Insert (Windows).
BindValue(val) ==
    CASE val.kind = "text" -> TextValue(val.s)
      [] val.kind = "int" -> IntValue(val.i)
      [] val.kind = "float" -> FloatValue(val.i)
      [] val.kind = "bool" -> IntValue(IF val.i = 1 THEN 1 ELSE 0)
      [] OTHER -> NullValue

BindAll(entries) == [i \in 1..Len(entries) |-> BindValue(entries[i][2])]

\* DatabaseManager::Insert (Windows)
InsertWindows(mgr, table_name, data, space, tbls, conns) ==
    IF mgr.database_ = NullHandle
    THEN Outcome(-1, tbls, conns, NothingExecuted)
    ELSE ExecuteInsert(mgr,
             "INSERT INTO " \o GetPrefixedTableName(table_name, space)
                 \o " (" \o ColumnsStream(data.entries)
                 \o ") VALUES (" \o PlaceholdersStream(data.entries) \o ")",
             BindAll(data.entries), tbls, conns)

\* The column switch of DatabaseManager::Query
ColumnValue(stored) ==
    CASE stored.kind = "int" -> IntValue(stored.i)
      [] stored.kind = "float" -> FloatValue(stored.i)
      [] stored.kind = "text" -> TextValue(stored.s)
      [] OTHER -> NullValue

\* One result row as a map from column name to value.
ProjectRow(columns, row) ==
    [name \in ColumnNames(columns) |->
        ColumnValue(row.vals[ColumnIndex(columns, name)])]

\* The row loop of DatabaseManager::Query: one map per emitted row.
QueryResult(step, exec) ==
    Outcome([i \in 1..Len(step.rows) |-> ProjectRow(step.columns, step.rows[i])],
            step.tables, step.connections, exec)

\* A cursor that has already been stepped once.
DropFirstRow(step) ==
    [step EXCEPT !.rows = IF @ = <<>> THEN <<>> ELSE Tail(@)]

\* Query that steps once before its loop and so loses the first row.
Query_SkipsFirstRow(mgr, sql, tbls, conns) ==
    IF mgr.database_ = NullHandle
    THEN Outcome(<<>>, tbls, conns, NothingExecuted)
    ELSE IF ~sqlite3_prepare_v2(conns[mgr.database_], tbls, sql)
    THEN Outcome(<<>>, tbls, conns, Executed(sql, FALSE, <<>>, FALSE))
    ELSE QueryResult(DropFirstRow(sqlite3_step(mgr.database_, conns, tbls, sql, <<>>)),
                     Executed(sql, TRUE, <<>>, TRUE))

\* DatabaseManager::Query
Query(mgr, sql, tbls, conns) ==
    IF mgr.database_ = NullHandle
    THEN Outcome(<<>>, tbls, conns, NothingExecuted)
    ELSE IF ~sqlite3_prepare_v2(conns[mgr.database_], tbls, sql)
    THEN Outcome(<<>>, tbls, conns, Executed(sql, FALSE, <<>>, FALSE))
    ELSE QueryResult(sqlite3_step(mgr.database_, conns, tbls, sql, <<>>),
                     Executed(sql, TRUE, <<>>, TRUE))

\* The end of DatabaseManager::Update: sqlite3_changes after the step.
UpdateResult(mgr, step, exec) ==
    Outcome(step.connections[mgr.database_].changes,
            step.tables, step.connections, exec)

\* DatabaseManager::Update: the arguments are never bound.
Update(mgr, sql, arguments, tbls, conns) ==
    IF mgr.database_ = NullHandle
    THEN Outcome(0, tbls, conns, NothingExecuted)
    ELSE IF ~sqlite3_prepare_v2(conns[mgr.database_], tbls, sql)
    THEN Outcome(0, tbls, conns, Executed(sql, FALSE, <<>>, FALSE))
    ELSE UpdateResult(mgr, sqlite3_step(mgr.database_, conns, tbls, sql, <<>>),
                      Executed(sql, TRUE, <<>>, TRUE))

\* DatabaseManager::Delete
Delete(mgr, sql, arguments, tbls, conns) == Update(mgr, sql, arguments, tbls, conns)

----------------------------------------------------------------------------
(* Method calls: arguments and responses *)

\* One entry of a call's argument map, or its absence.
Absent == [has |-> FALSE, s |-> "", isMap |-> FALSE, entries |-> <<>>]
Str(text) == [Absent EXCEPT !.has = TRUE, !.s = text]
Map(entries) == [Absent EXCEPT !.has = TRUE, !.isMap = TRUE, !.entries = entries]
NotAMap == [Absent EXCEPT !.has = TRUE]
List(values) == [Absent EXCEPT !.has = TRUE, !.entries = values]

\* The argument map of a call, by key.
NoArguments ==
    [databasePath |-> Absent, tableName |-> Absent, data |-> Absent,
     space |-> Absent, sql |-> Absent, arguments |-> Absent,
     key |-> Absent, value |-> Absent]

MethodCall(method, args) == [method |-> method, args |-> args]

NoValue == [type |-> "null", i |-> 0, list |-> <<>>]
IntResult(n) == [type |-> "int", i |-> n, list |-> <<>>]
BoolResult(b) == [type |-> "bool", i |-> IF b THEN 1 ELSE 0, list |-> <<>>]
ListResult(l) == [type |-> "list", i |-> 0, list |-> l]

Success(value) == [kind |-> "success", code |-> "", value |-> value]
Error(code) == [kind |-> "error", code |-> code, value |-> NoValue]
NotImplemented == [kind |-> "notImplemented", code |-> "", value |-> NoValue]
NoResponse == [kind |-> "none", code |-> "", value |-> NoValue]

(* The calls the model issues *)

FullRecord ==
    << <<TextValue("name"), TextValue("a")>>, <<TextValue("note"), NullValue>>,
       <<TextValue("price"), FloatValue(15)>>, <<TextValue("qty"), IntValue(3)>> >>
NameRecord == << <<TextValue("name"), TextValue("b")>> >>
MixedRecord ==
    << <<TextValue("name"), IntValue(3)>>, <<TextValue("note"), BoolValue(TRUE)>> >>
UnknownColumnRecord == << <<TextValue("zzz"), IntValue(1)>> >>
IntKeyRecord == << <<IntValue(1), TextValue("a")>> >>
EmptyRecord == << >>

Records == {FullRecord, NameRecord, MixedRecord,
            UnknownColumnRecord, IntKeyRecord, EmptyRecord}

InitializeCalls ==
    {[NoArguments EXCEPT !.databasePath = p] :
        p \in {Absent, Str(GoodPath), Str(DirectoryPath)}}

InsertCalls ==
    {[NoArguments EXCEPT !.tableName = Str("items"), !.data = Map(r), !.space = sp] :
        r \in Records, sp \in {Absent, Str("s")}}
    \cup {[NoArguments EXCEPT !.tableName = Str(""), !.data = Map(r), !.space = Str("s")] :
        r \in {NameRecord, EmptyRecord}}
    \cup {[NoArguments EXCEPT !.tableName = Str("items"), !.data = Map(NameRecord),
                              !.space = Str("")],
          [NoArguments EXCEPT !.data = Map(NameRecord)],
          [NoArguments EXCEPT !.tableName = Str("items")],
          [NoArguments EXCEPT !.tableName = Str("items"), !.data = NotAMap]}

SqlTexts ==
    {SelectFrom(t, NoWhere).text : t \in PhysicalTables}
    \cup {CreateTable(t).text : t \in PhysicalTables}
    \cup {SelectFrom("default_items", WhereValue("name", TextValue("zz"))).text,
          DeleteFrom("default_items", NoWhere).text,
          MalformedSql}

QueryCalls ==
    {[NoArguments EXCEPT !.sql = q] : q \in {Absent} \cup {Str(t) : t \in SqlTexts}}

SaveSecureKeyCalls ==
    {[NoArguments EXCEPT !.key = k, !.value = v] :
        k \in {Absent, Str("token")}, v \in {Absent, Str("secret")}}

DeleteByNameCall ==
    [NoArguments EXCEPT
        !.sql = Str(DeleteFrom("default_items", WhereParam("name", 1)).text),
        !.arguments = List(<< TextValue("a") >>)]

UpdateCalls ==
    {DeleteByNameCall,
     [NoArguments EXCEPT !.sql = Str(DeleteFrom("default_items", NoWhere).text),
                         !.arguments = List(<< >>)],
     [NoArguments EXCEPT !.sql = Str(CreateTable("s_").text), !.arguments = List(<< >>)],
     [NoArguments EXCEPT !.sql = Str(MalformedSql), !.arguments = List(<< >>)]}

RECURSIVE TotalRows(_, _)
TotalRows(tbls, names) ==
    IF names = {} THEN 0
    ELSE LET t == CHOOSE t \in names : TRUE
         IN  Len(tbls[t].rows) + TotalRows(tbls, names \ {t})

\* The model stops adding rows once the database holds MaxRows rows.
HasRoom == TotalRows(tables, DOMAIN tables) < MaxRows

Respond(call, resp) ==
    /\ lastCall' = call
    /\ response' = resp

----------------------------------------------------------------------------
(* The Linux plugin: handle_method_call *)

\* handle_method_call, "initialize"
LinuxInitialize ==
    \E args \in InitializeCalls :
        /\ alive /\ platform = "linux"
        /\ IF ~args.databasePath.has
           THEN /\ Respond(MethodCall("initialize", args), Error("INVALID_ARGS"))
                /\ UNCHANGED <<database_manager, connections>>
           ELSE \E init \in {Initialize(DatabaseManager(args.databasePath.s),
                                           Destroy(database_manager, connections))} :
                    /\ database_manager' = init.manager
                    /\ connections' = init.connections
                    /\ Respond(MethodCall("initialize", args),
                               IF init.ok THEN Success(NoValue) ELSE Error("INIT_ERROR"))
        /\ executed' = NothingExecuted
        /\ UNCHANGED <<platform, alive, tables>>

\* handle_method_call, "close"
LinuxClose ==
    /\ alive /\ platform = "linux"
    /\ IF database_manager.present
       THEN \E closed \in {Close(database_manager, connections)} :
                /\ connections' = Destroy(closed.manager, closed.connections)
                /\ database_manager' = NoManager
       ELSE UNCHANGED <<database_manager, connections>>
    /\ Respond(MethodCall("close", NoArguments), Success(NoValue))
    /\ executed' = NothingExecuted
    /\ UNCHANGED <<platform, alive, tables>>

\* handle_method_call, "insert"
LinuxInsert ==
    \E args \in InsertCalls :
        /\ alive /\ platform = "linux"
        /\ IF ~database_manager.present
           THEN /\ Respond(MethodCall("insert", args), Error("NOT_INITIALIZED"))
                /\ executed' = NothingExecuted
                /\ UNCHANGED <<tables, connections>>
           ELSE IF ~args.tableName.has \/ ~args.data.has
           THEN /\ Respond(MethodCall("insert", args), Error("INVALID_ARGS"))
                /\ executed' = NothingExecuted
                /\ UNCHANGED <<tables, connections>>
           ELSE \E out \in {InsertLinux(database_manager, args.tableName.s, args.data,
                                  IF args.space.has THEN args.space.s ELSE "default",
                                  tables, connections)} :
                    /\ HasRoom
                    /\ tables' = out.tables
                    /\ connections' = out.connections
                    /\ executed' = out.executed
                    /\ Respond(MethodCall("insert", args),
                               IF out.value >= 0 THEN Success(IntResult(out.value))
                               ELSE Error("INSERT_ERROR"))
        /\ UNCHANGED <<platform, alive, database_manager>>

\* handle_method_call, "query"
LinuxQuery ==
    \E args \in QueryCalls :
        /\ alive /\ platform = "linux"
        /\ IF ~database_manager.present
           THEN /\ Respond(MethodCall("query", args), Error("NOT_INITIALIZED"))
                /\ executed' = NothingExecuted
                /\ UNCHANGED <<tables, connections>>
           ELSE IF ~args.sql.has
           THEN /\ Respond(MethodCall("query", args), Error("INVALID_ARGS"))
                /\ executed' = NothingExecuted
                /\ UNCHANGED <<tables, connections>>
           ELSE \E out \in {Query(database_manager, args.sql.s, tables, connections)} :
                    /\ tables' = out.tables
                    /\ connections' = out.connections
                    /\ executed' = out.executed
                    /\ Respond(MethodCall("query", args), Success(ListResult(out.value)))
        /\ UNCHANGED <<platform, alive, database_manager>>

\* handle_method_call, "isBiometricAvailable"
LinuxIsBiometricAvailable ==
    /\ alive /\ platform = "linux"
    /\ Respond(MethodCall("isBiometricAvailable", NoArguments),
               Success(BoolResult(FALSE)))
    /\ executed' = NothingExecuted
    /\ UNCHANGED <<platform, alive, database_manager, connections, tables>>

\* Methods the Linux handler has no branch for
LinuxUnhandled == {"update", "delete", "saveSecureKey"}

\* handle_method_call, any other method
LinuxNotImplemented ==
    \E method \in LinuxUnhandled, q \in {DeleteByNameCall} :
        /\ alive /\ platform = "linux"
        /\ Respond(MethodCall(method, q), NotImplemented)
        /\ executed' = NothingExecuted
        /\ UNCHANGED <<platform, alive, database_manager, connections, tables>>

\* local_storage_cache_linux_plugin_dispose: only the parent's dispose runs;
\* the unique_ptr member of the GObject struct is never destroyed.
LinuxDispose ==
    /\ alive /\ platform = "linux"
    /\ alive' = FALSE
    /\ UNCHANGED <<platform, database_manager, connections, tables, response,
                   lastCall, executed>>

----------------------------------------------------------------------------
(* The Windows plugin: LocalStorageCacheWindowsPlugin::HandleMethodCall *)

\* HandleMethodCall, "initialize"
WindowsInitialize ==
    \E args \in InitializeCalls :
        /\ alive /\ platform = "windows"
        /\ IF ~args.databasePath.has
           THEN /\ Respond(MethodCall("initialize", args), Error("INVALID_ARGS"))
                /\ UNCHANGED <<database_manager, connections>>
           ELSE \E init \in {Initialize(DatabaseManager(args.databasePath.s),
                                           Destroy(database_manager, connections))} :
                    /\ database_manager' = init.manager
                    /\ connections' = init.connections
                    /\ Respond(MethodCall("initialize", args),
                               IF init.ok THEN Success(NoValue) ELSE Error("INIT_ERROR"))
        /\ executed' = NothingExecuted
        /\ UNCHANGED <<platform, alive, tables>>

\* HandleMethodCall, "close"
WindowsClose ==
    /\ alive /\ platform = "windows"
    /\ IF database_manager.present
       THEN \E closed \in {Close(database_manager, connections)} :
                /\ connections' = Destroy(closed.manager, closed.connections)
                /\ database_manager' = NoManager
       ELSE UNCHANGED <<database_manager, connections>>
    /\ Respond(MethodCall("close", NoArguments), Success(NoValue))
    /\ executed' = NothingExecuted
    /\ UNCHANGED <<platform, alive, tables>>

\* HandleMethodCall, "insert"
WindowsInsert ==
    \E args \in InsertCalls :
        /\ alive /\ platform = "windows"
        /\ IF ~database_manager.present
           THEN /\ Respond(MethodCall("insert", args), Error("NOT_INITIALIZED"))
                /\ executed' = NothingExecuted
                /\ UNCHANGED <<tables, connections>>
           ELSE IF ~args.tableName.has \/ ~args.data.has \/ ~args.data.isMap
           THEN /\ Respond(MethodCall("insert", args), Error("INVALID_ARGS"))
                /\ executed' = NothingExecuted
                /\ UNCHANGED <<tables, connections>>
           ELSE \E out \in {InsertWindows(database_manager, args.tableName.s, args.data,
                                  IF args.space.has THEN args.space.s ELSE "default",
                                  tables, connections)} :
                    /\ HasRoom
                    /\ tables' = out.tables
                    /\ connections' = out.connections
                    /\ executed' = out.executed
                    /\ Respond(MethodCall("insert", args),
                               IF out.value >= 0 THEN Success(IntResult(out.value))
                               ELSE Error("INSERT_ERROR"))
        /\ UNCHANGED <<platform, alive, database_manager>>

\* HandleMethodCall, "query"
WindowsQuery ==
    \E args \in QueryCalls :
        /\ alive /\ platform = "windows"
        /\ IF ~database_manager.present
           THEN /\ Respond(MethodCall("query", args), Error("NOT_INITIALIZED"))
                /\ executed' = NothingExecuted
                /\ UNCHANGED <<tables, connections>>
           ELSE IF ~args.sql.has
           THEN /\ Respond(MethodCall("query", args), Error("INVALID_ARGS"))
                /\ executed' = NothingExecuted
                /\ UNCHANGED <<tables, connections>>
           ELSE \E out \in {Query(database_manager, args.sql.s, tables, connections)} :
                    /\ tables' = out.tables
                    /\ connections' = out.connections
                    /\ executed' = out.executed
                    /\ Respond(MethodCall("query", args), Success(ListResult(out.value)))
        /\ UNCHANGED <<platform, alive, database_manager>>

\* HandleMethodCall, "saveSecureKey"
WindowsSaveSecureKey ==
    \E args \in SaveSecureKeyCalls :
        /\ alive /\ platform = "windows"
        /\ Respond(MethodCall("saveSecureKey", args),
                   IF ~args.key.has \/ ~args.value.has
                   THEN Error("INVALID_ARGS") ELSE Success(NoValue))
        /\ executed' = NothingExecuted
        /\ UNCHANGED <<platform, alive, database_manager, connections, tables>>

\* HandleMethodCall, "isBiometricAvailable"
WindowsIsBiometricAvailable ==
    /\ alive /\ platform = "windows"
    /\ Respond(MethodCall("isBiometricAvailable", NoArguments),
               Success(BoolResult(FALSE)))
    /\ executed' = NothingExecuted
    /\ UNCHANGED <<platform, alive, database_manager, connections, tables>>

\* Methods the Windows handler has no branch for
WindowsUnhandled == {"update", "delete"}

\* HandleMethodCall, any other method
WindowsNotImplemented ==
    \E method \in WindowsUnhandled, q \in {DeleteByNameCall} :
        /\ alive /\ platform = "windows"
        /\ Respond(MethodCall(method, q), NotImplemented)
        /\ executed' = NothingExecuted
        /\ UNCHANGED <<platform, alive, database_manager, connections, tables>>

\* LocalStorageCacheWindowsPlugin::~LocalStorageCacheWindowsPlugin: the
\* database_manager_ member is destroyed with the plugin.
WindowsDestructor ==
    /\ alive /\ platform = "windows"
    /\ alive' = FALSE
    /\ connections' = Destroy(database_manager, connections)
    /\ database_manager' = NoManager
    /\ UNCHANGED <<platform, tables, response, lastCall, executed>>

----------------------------------------------------------------------------
(* The plugin as a state machine *)

Init ==
    /\ platform \in {"linux", "windows"}
    /\ alive = TRUE
    /\ database_manager = NoManager
    /\ connections = << >>
    /\ tables = << >>
    /\ response = NoResponse
    /\ lastCall = MethodCall("none", NoArguments)
    /\ executed = NothingExecuted

Next ==
    \/ LinuxInitialize
    \/ LinuxClose
    \/ LinuxInsert
    \/ LinuxQuery
    \/ LinuxIsBiometricAvailable
    \/ LinuxNotImplemented
    \/ LinuxDispose
    \/ WindowsInitialize
    \/ WindowsClose
    \/ WindowsInsert
    \/ WindowsQuery
    \/ WindowsSaveSecureKey
    \/ WindowsIsBiometricAvailable
    \/ WindowsNotImplemented
    \/ WindowsDestructor

Spec == Init /\ [][Next]_vars

----------------------------------------------------------------------------
(* DatabaseManager::Update and DatabaseManager::Delete are public but no     *)
(* branch of either handler calls them. SpecManager adds a caller that      *)
(* holds the plugin's DatabaseManager and invokes them directly.            *)

ManagerUpdate ==
    \E args \in UpdateCalls :
        /\ alive /\ database_manager.present
        /\ \E out \in {Update(database_manager, args.sql.s, args.arguments.entries,
                             tables, connections)} :
               /\ tables' = out.tables
               /\ connections' = out.connections
               /\ executed' = out.executed
               /\ Respond(MethodCall("DatabaseManager::Update", args),
                          Success(IntResult(out.value)))
        /\ UNCHANGED <<platform, alive, database_manager>>

ManagerDelete ==
    \E args \in UpdateCalls :
        /\ alive /\ database_manager.present
        /\ \E out \in {Delete(database_manager, args.sql.s, args.arguments.entries,
                             tables, connections)} :
               /\ tables' = out.tables
               /\ connections' = out.connections
               /\ executed' = out.executed
               /\ Respond(MethodCall("DatabaseManager::Delete", args),
                          Success(IntResult(out.value)))
        /\ UNCHANGED <<platform, alive, database_manager>>

NextManager ==
    \/ Next
    \/ ManagerUpdate
    \/ ManagerDelete

SpecManager == Init /\ [][NextManager]_vars

----------------------------------------------------------------------------
(* Properties *)

\* The plugin holds no DatabaseManager: before initialize and after close.
Closed == ~database_manager.present

\* The plugin holds a DatabaseManager whose handle the engine opened.
Open ==
    /\ database_manager.present
    /\ database_manager.database_ \in DOMAIN connections
    /\ ~connections[database_manager.database_].sick

NoHandleOpen == DOMAIN connections = {}

\* No handle of a successful sqlite3_open is still open.
NoDatabaseOpen == \A h \in DOMAIN connections : connections[h].sick

\* C1: whenever the plugin is Closed, an insert, query, update or delete call
\* fails with NOT_INITIALIZED and hands nothing to the engine. (These calls
\* leave the DatabaseManager pointer alone, so the plugin is Closed after the
\* call exactly when it was Closed before it.)
C1_ClosedCallsFailNotInitialized ==
    (alive /\ Closed /\ lastCall.method \in {"insert", "query", "update", "delete"})
        => (response = Error("NOT_INITIALIZED") /\ executed = NothingExecuted)

\* C2: after close, and after the plugin is torn down, no engine handle
\* opened by the bridge remains open.
C2_NoHandleAfterCloseOrTeardown ==
    (~alive \/ lastCall.method = "close") => NoDatabaseOpen

\* C3: close succeeds in every state and leaves the plugin Closed with no
\* open handle and the database contents untouched; a close that follows a
\* close changes nothing at all.
C3_CloseIdempotent ==
    [][(alive' /\ lastCall'.method = "close") =>
          /\ response' = Success(NoValue)
          /\ ~database_manager'.present
          /\ DOMAIN connections' = {}
          /\ tables' = tables
          /\ (alive /\ lastCall.method = "close") => UNCHANGED vars]_vars

\* A close that answered success after a session that had created tables.
C3_Witness ==
    /\ alive
    /\ lastCall.method = "close"
    /\ response = Success(NoValue)
    /\ Closed
    /\ NoHandleOpen
    /\ DOMAIN tables # {}

\* The record of an insert call, and the physical table the call names.
RecordOf(call) == call.args.data.entries
InsertTarget(call) ==
    (IF call.args.space.has THEN call.args.space.s ELSE "default")
        \o "_" \o call.args.tableName.s

TextKeyed(entries) ==
    /\ \A i \in 1..Len(entries) : entries[i][1].kind = "text"
    /\ \A i, j \in 1..Len(entries) : entries[i][1] = entries[j][1] => i = j

\* A record's value as the engine receives it: a boolean arrives as 0 or 1.
AsParameter(val) == IF val.kind = "bool" THEN IntValue(val.i) ELSE val

RecordAsMap(entries) ==
    [k \in {entries[i][1].s : i \in 1..Len(entries)} |->
        entries[CHOOSE i \in 1..Len(entries) : entries[i][1].s = k][2]]

\* C4: the INSERT statement built for a record R with distinct text field
\* names lists R's fields in R's order in a column list and a placeholder
\* list of length |R|, and the i-th bound parameter is R's i-th value.
C4_InsertStatementMatchesRecord ==
    (/\ alive /\ Open
     /\ lastCall.method = "insert"
     /\ executed.sql # ""
     /\ TextKeyed(RecordOf(lastCall)))
        => LET R == RecordOf(lastCall)
               st == Parse(executed.sql)
           IN  /\ Len(st.columns) = Len(R)
               /\ Len(st.placeholders) = Len(R)
               /\ \A i \in 1..Len(R) : st.columns[i] = R[i][1].s
               /\ executed.ok =>
                     /\ Len(executed.bound) = Len(R)
                     /\ \A i \in 1..Len(R) : executed.bound[i] = AsParameter(R[i][2])

\* C5: a successful insert of the record {name: text, note: null, price:
\* float, qty: integer} followed at once by SELECT * on the same table
\* returns, as its last record, the inserted record.
C5_InsertQueryRoundTrip ==
    [][(/\ lastCall.method = "insert"
        /\ response.kind = "success"
        /\ RecordOf(lastCall) = FullRecord
        /\ alive'
        /\ lastCall'.method = "query"
        /\ lastCall'.args.sql = Str("SELECT * FROM " \o InsertTarget(lastCall)))
       => /\ response'.kind = "success"
          /\ response'.value.list # << >>
          /\ response'.value.list[Len(response'.value.list)] = RecordAsMap(FullRecord)]_vars

\* C6: an insert with table name t and space s hands the engine a statement
\* on the table s_t (default_t when the space is omitted), adds a row there
\* when it succeeds, and changes no other table.
C6_InsertTargetsPrefixedTable ==
    [][(/\ alive'
        /\ lastCall'.method = "insert"
        /\ lastCall'.args.tableName.has
        /\ lastCall'.args.data.has)
       => LET target == InsertTarget(lastCall')
          IN  /\ DOMAIN tables' = DOMAIN tables
              /\ \A t \in DOMAIN tables : t # target => tables'[t] = tables[t]
              /\ (executed'.sql # "" /\ Parse(executed'.sql).op # "error")
                    => Parse(executed'.sql).table = target
              /\ response'.kind = "success"
                    => /\ target \in DOMAIN tables
                       /\ Len(tables'[target].rows) = Len(tables[target].rows) + 1]_vars

\* An insert without a space that succeeded on default_items while s_items
\* holds a row of its own.
C6_Witness ==
    /\ lastCall.method = "insert"
    /\ ~lastCall.args.space.has
    /\ response.kind = "success"
    /\ {"default_items", "s_items"} \subseteq DOMAIN tables
    /\ Len(tables["default_items"].rows) = 1
    /\ Len(tables["s_items"].rows) = 1

\* C7: an insert whose table name or space is the empty string fails with
\* INVALID_ARGS and hands no statement to the engine.
C7_EmptyNameIsInvalidArgument ==
    (/\ alive
     /\ Open
     /\ lastCall.method = "insert"
     /\ lastCall.args.data.has
     /\ lastCall.args.tableName = Str("") \/ lastCall.args.space = Str(""))
        => (response = Error("INVALID_ARGS") /\ executed = NothingExecuted)

\* The row INSERT ... DEFAULT VALUES stores in a table.
DefaultRow(cols) ==
    [j \in 1..Len(cols) |-> ApplyAffinity(cols[j].aff, cols[j].dflt)]
AdmitsDefaultRow(cols) ==
    \A j \in 1..Len(cols) : ~(cols[j].notnull /\ DefaultRow(cols)[j].kind = "null")

\* C8: while Open, an insert of the empty record into an existing table
\* (whose columns all admit their defaults) adds exactly one row, holding
\* every column's default, and returns that row's id.
C8_EmptyRecordInsertsDefaults ==
    [][(/\ alive'
        /\ Open
        /\ lastCall'.method = "insert"
        /\ lastCall'.args.tableName.has
        /\ lastCall'.args.data = Map(EmptyRecord)
        /\ InsertTarget(lastCall') \in DOMAIN tables
        /\ AdmitsDefaultRow(tables[InsertTarget(lastCall')].columns))
       => LET t == InsertTarget(lastCall')
          IN  /\ response'.kind = "success"
              /\ tables'[t].rows =
                    Append(tables[t].rows,
                           [rowid |-> response'.value.i,
                            vals |-> DefaultRow(tables[t].columns)])]_vars

AffectedRows(h, text, params) ==
    LET st == Parse(text)
        once == sqlite3_step(h, connections, tables, text, params)
    IN  IF st.op = "delete"
        THEN Len(tables[st.table].rows) - Len(once.tables[st.table].rows)
        ELSE 0

\* C10: while Open, DatabaseManager::Update and Delete run the statement once
\* with its parameters and return the rows that run affected; a statement
\* that cannot be prepared returns 0 and leaves the database unchanged.
C10_UpdateReturnsAffectedRows ==
    [][(/\ alive'
        /\ Open
        /\ lastCall'.method \in {"DatabaseManager::Update", "DatabaseManager::Delete"})
       => LET text == lastCall'.args.sql.s
              params == lastCall'.args.arguments.entries
              h == database_manager.database_
          IN  IF ~sqlite3_prepare_v2(connections[h], tables, text)
              THEN response'.value.i = 0 /\ tables' = tables
              ELSE /\ tables' = sqlite3_step(h, connections, tables, text, params).tables
                   /\ response'.value.i = AffectedRows(h, text, params)]_vars

\* The database path of an initialize call that carries one the engine
\* cannot open.
UnopenablePath(call) ==
    /\ call.method = "initialize"
    /\ call.args.databasePath.has
    /\ call.args.databasePath.s # GoodPath

\* C11: an initialize whose database path the engine cannot open is answered
\* with the error INIT_ERROR; it is never answered with success and the
\* handler always produces a response.
C11_UnopenablePathIsInitError ==
    UnopenablePath(lastCall) => response = Error("INIT_ERROR")

\* An initialize with a directory path has been answered.
C11_Witness ==
    /\ lastCall.method = "initialize"
    /\ lastCall.args.databasePath = Str(DirectoryPath)
    /\ response.kind = "error"

\* C12: at most one engine handle is open, and an open handle is the one the
\* plugin's current DatabaseManager holds: an initialize destroys the previous
\* DatabaseManager, closing its handle, before the new handle is opened.
C12_AtMostOneHandle ==
    /\ Cardinality(DOMAIN connections) <= 1
    /\ \A h \in DOMAIN connections :
           database_manager.present /\ database_manager.database_ = h

\* A successful initialize in a session that already holds rows: exactly one
\* handle is open.
C12_Witness ==
    /\ alive
    /\ lastCall.method = "initialize"
    /\ response = Success(NoValue)
    /\ Open
    /\ Cardinality(DOMAIN connections) = 1
    /\ TotalRows(tables, DOMAIN tables) > 0

\* The plugin holds a DatabaseManager whose sqlite3_open failed.
FailedOpen ==
    /\ database_manager.present
    /\ database_manager.database_ \in DOMAIN connections
    /\ connections[database_manager.database_].sick

\* The call carries the arguments its handler requires.
HasRequiredArguments(call) ==
    CASE call.method = "insert" ->
            /\ call.args.tableName.has
            /\ call.args.data.has
            /\ platform = "windows" => call.args.data.isMap
      [] call.method = "query" -> call.args.sql.has
      [] OTHER -> TRUE

\* An initialize answered INIT_ERROR has replaced the DatabaseManager: no
\* database is open any more and the plugin holds the failed manager.
FailedInitializeReplacesManager ==
    (/\ alive'
     /\ lastCall'.method = "initialize"
     /\ response' = Error("INIT_ERROR"))
    => /\ FailedOpen'
       /\ NoDatabaseOpen'
       /\ database_manager'.database_path_ = lastCall'.args.databasePath.s

====
